---- MODULE Spec2Model ----
(***************************************************************************)
(* A model of PROJETO_C213/models/pid_model.py (class PIDModel): the       *)
(* session state of one PIDModel object and its operations load_data,      *)
(* run_identification, calculate_pid_tuning, simulate_closed_loop and      *)
(* calculate_metrics.                                                      *)
(*                                                                         *)
(* Numbers.  A Python/numpy float is modelled as an extended rational      *)
(* [n |-> numerator, d |-> denominator]: d > 0 and gcd(n, d) = 1 for a     *)
(* finite value, d = 0 for the three non-finite values (n = 1: +inf,       *)
(* n = -1: -inf, n = 0: NaN).  The operators below follow IEEE-754 as      *)
(* numpy applies it (x/0 is +-inf, 0/0 and inf-inf are NaN, every          *)
(* comparison with NaN is false); rounding, overflow and the sign of zero  *)
(* are not modelled.                                                       *)
(*                                                                         *)
(* None.  An attribute or argument that may be None is a sequence of       *)
(* length 0 (None) or 1 (the value): self.t is None or Some(array).        *)
(***************************************************************************)
EXTENDS Integers, Sequences, FiniteSets, TLC

VARIABLES t, u, y, y0, du, den_norm, k, tau, theta, method_id, Kp, Ti, Td,
          last, identified, nops, view

dataset == <<t, u, y, y0, du, den_norm, k>>
fopdt   == <<tau, theta, method_id>>
pid     == <<Kp, Ti, Td>>
vars    == <<t, u, y, y0, du, den_norm, k, tau, theta, method_id, Kp, Ti, Td,
             last, identified, nops, view>>

----------------------------------------------------------------------------
(* Bounds of the model.                                                    *)

\* The number of operations of one session that the model follows.
MaxOps == 4

\* The fit errors the response engine may report are 0 .. MaxRmse and +inf.
MaxRmse == 1

----------------------------------------------------------------------------
(* Extended rationals.                                                     *)

Abs(i) == IF i < 0 THEN -i ELSE i

Sgn(i) == IF i < 0 THEN -1 ELSE IF i > 0 THEN 1 ELSE 0

RECURSIVE GCD(_, _)
GCD(a, b) == IF b = 0 THEN a ELSE GCD(b, a % b)

\* The float n/d, normalised (d = 0 gives +inf, -inf or NaN by the sign of n).
Q(n, d) ==
    IF d = 0 THEN [n |-> Sgn(n), d |-> 0]
    ELSE LET g == GCD(Abs(n), Abs(d))
         IN  [n |-> (Sgn(d) * n) \div g, d |-> Abs(d) \div g]

F(i) == [n |-> i, d |-> 1]

NaN    == [n |-> 0, d |-> 0]
PosInf == [n |-> 1, d |-> 0]

None == << >>
Some(x) == <<x>>

\* Body(x) for x the value of e: a local definition whose value is computed
\* once, however many times Body uses it.
Let(e, Body(_)) == CHOOSE r \in {Body(x) : x \in {e}} : TRUE

IsFinite(a) == a.d > 0
IsNaN(a) == a.d = 0 /\ a.n = 0

Neg(a) == [n |-> -a.n, d |-> a.d]

FAbs(a) == [n |-> Abs(a.n), d |-> a.d]

Add(a, b) ==
    IF IsNaN(a) \/ IsNaN(b) THEN NaN
    ELSE IF a.d = 0 /\ b.d = 0 THEN (IF a.n = b.n THEN a ELSE NaN)
    ELSE IF a.d = 0 THEN a
    ELSE IF b.d = 0 THEN b
    ELSE Q(a.n * b.d + b.n * a.d, a.d * b.d)

Sub(a, b) == Add(a, Neg(b))

Mul(a, b) ==
    IF IsNaN(a) \/ IsNaN(b) THEN NaN
    ELSE Q(a.n * b.n, a.d * b.d)

\* numpy division: x/0 is +-inf by the sign of x, 0/0 is NaN.
Div(a, b) ==
    IF IsNaN(a) \/ IsNaN(b) THEN NaN
    ELSE IF b.d = 0 THEN (IF a.d = 0 THEN NaN ELSE F(0))
    ELSE IF b.n = 0 THEN Q(a.n, 0)
    ELSE Mul(a, Q(b.d, b.n))

\* a/b < c/d for 0 <= a < b and 0 <= c < d, by comparing the reciprocals'
\* integer parts and then their fractions, so that no product is formed.
RECURSIVE FracLt(_, _, _, _)
FracLt(a, b, c, d) ==
    IF c = 0 THEN FALSE
    ELSE IF a = 0 THEN TRUE
    ELSE IF d \div c # b \div a THEN d \div c < b \div a
    ELSE Let(<<d % c, c, b % a, a>>, LAMBDA x : FracLt(x[1], x[2], x[3], x[4]))

\* a < b; false when either is NaN.  Two finite values are compared by
\* their integer parts and then by their fractions.
Lt(a, b) ==
    /\ ~IsNaN(a)
    /\ ~IsNaN(b)
    /\ IF a.d = 0 \/ b.d = 0
       THEN (IF a.d = 0 /\ b.d = 0 THEN a.n < b.n
             ELSE IF a.d = 0 THEN a.n < 0
             ELSE b.n > 0)
       ELSE IF a.n \div a.d # b.n \div b.d THEN a.n \div a.d < b.n \div b.d
       ELSE FracLt(a.n % a.d, a.d, b.n % b.d, b.d)

\* n * 10^p < d, for n >= 0 and d > 0, computed without a large power.
RECURSIVE ScaledBelow(_, _, _)
ScaledBelow(n, d, p) ==
    IF p = 0 THEN n < d
    ELSE IF n * 10 >= d THEN FALSE
    ELSE ScaledBelow(n * 10, d, p - 1)

\* abs(a) < 1e-p; false when a is NaN or infinite.
AbsBelowPow10(a, p) == IsFinite(a) /\ ScaledBelow(Abs(a.n), a.d, p)

Le(a, b) == ~IsNaN(a) /\ ~IsNaN(b) /\ (a = b \/ Lt(a, b))
Gt(a, b) == Lt(b, a)
Ge(a, b) == Le(b, a)

----------------------------------------------------------------------------
(* numpy arrays are sequences; Python's 0-based half-open slices.          *)

Min2(a, b) == IF a < b THEN a ELSE b
Max2(a, b) == IF a > b THEN a ELSE b

\* a[lo:hi] for 0 <= lo, 0 <= hi (hi is clipped to the length).
Slice(a, lo, hi) == SubSeq(a, lo + 1, Min2(hi, Len(a)))

\* a[-w:] for w > 0.
Tail_w(a, w) == SubSeq(a, Max2(1, Len(a) - w + 1), Len(a))

\* a[mask]: the elements whose index the mask keeps, in their order.
Compress(a, mask) ==
    LET kept == {i \in 1 .. Len(a) : mask[i]}
    IN  [p \in 1 .. Cardinality(kept) |->
            a[CHOOSE i \in kept : Cardinality({j \in kept : j <= i}) = p]]

\* numpy.diff
Diff(a) == [i \in 1 .. (IF Len(a) = 0 THEN 0 ELSE Len(a) - 1) |-> Sub(a[i + 1], a[i])]

\* The finite floats of a in increasing order: each goes to the place
\* after the smaller ones and the equal ones that come before it in a.
SortFloats(a) ==
    LET before(i, j) == Lt(a[i], a[j]) \/ (a[i] = a[j] /\ i < j)
        rank(j) == Cardinality({i \in 1 .. Len(a) : before(i, j)}) + 1
    IN  [p \in 1 .. Len(a) |-> a[CHOOSE j \in 1 .. Len(a) : rank(j) = p]]

\* numpy.median of finite values: the middle one, or the mean of the two
\* middle ones; NaN for an empty array.
Median(a) ==
    IF a = << >> THEN NaN
    ELSE Let(SortFloats(a), LAMBDA s :
             IF Len(s) % 2 = 1 THEN s[(Len(s) + 1) \div 2]
             ELSE Div(Add(s[Len(s) \div 2], s[Len(s) \div 2 + 1]), F(2)))

----------------------------------------------------------------------------
(* The .mat container.  A file is [readable, data]: readable is false when *)
(* neither scipy.io.loadmat nor the h5py reader can read it; data is the   *)
(* dict the reader returns, a sequence of [key, val] in the dict's         *)
(* iteration order (the reader's own '__header__', '__version__' and       *)
(* '__globals__' entries end in '_' and match no alias: they are left      *)
(* out).  A key is the sequence of its characters.                         *)

UpperToLower ==
    ("A" :> "a") @@ ("B" :> "b") @@ ("C" :> "c") @@ ("D" :> "d") @@
    ("E" :> "e") @@ ("F" :> "f") @@ ("G" :> "g") @@ ("H" :> "h") @@
    ("I" :> "i") @@ ("J" :> "j") @@ ("K" :> "k") @@ ("L" :> "l") @@
    ("M" :> "m") @@ ("N" :> "n") @@ ("O" :> "o") @@ ("P" :> "p") @@
    ("Q" :> "q") @@ ("R" :> "r") @@ ("S" :> "s") @@ ("T" :> "t") @@
    ("U" :> "u") @@ ("V" :> "v") @@ ("W" :> "w") @@ ("X" :> "x") @@
    ("Y" :> "y") @@ ("Z" :> "z")

\* str.lower
Lower(s) ==
    [i \in 1 .. Len(s) |-> IF s[i] \in DOMAIN UpperToLower THEN UpperToLower[s[i]] ELSE s[i]]

\* str.endswith (which holds of equal strings too)
EndsWith(s, a) ==
    Len(a) <= Len(s) /\ SubSeq(s, Len(s) - Len(a) + 1, Len(s)) = a

t_aliases == << <<"t","i","e","m","p","o">>, <<"t","e","m","p","o">>,
                <<"t","i","m","e">>, <<"t">> >>
u_aliases == << <<"e","n","t","r","a","d","a">>, <<"i","n","p","u","t">>, <<"u">> >>
y_aliases == << <<"s","a","l","i","d","a">>, <<"o","u","t","p","u","t">>, <<"y">> >>

\* The position in dct of the first key, in the dict's order, that equals or
\* ends with one of the aliases once lower-cased; 0 for None.
find_first_key(dct, aliases) ==
    LET hit(i) == \E j \in 1 .. Len(aliases) :
                      Lower(dct[i].key) = aliases[j] \/ EndsWith(Lower(dct[i].key), aliases[j])
        hits == {i \in 1 .. Len(dct) : hit(i)}
    IN  IF hits = {} THEN 0 ELSE CHOOSE i \in hits : \A j \in hits : i <= j

----------------------------------------------------------------------------
(* load_data: cleaning and step detection.                                 *)

w_pre == 25
w_post == 25
w_pre2 == 50
w_post2 == 50

\* eps = 1e-6
eps == Q(1, 1000000)

\* The rows <<t, u, y>> sorted by t as numpy.argsort orders them; equal
\* times keep their order (numpy sorts short arrays by insertion).
SortRows(rows) ==
    LET before(i, j) == Lt(rows[i][1], rows[j][1]) \/ (rows[i][1] = rows[j][1] /\ i < j)
        rank(j) == Cardinality({i \in 1 .. Len(rows) : before(i, j)}) + 1
    IN  [p \in 1 .. Len(rows) |-> rows[CHOOSE j \in 1 .. Len(rows) : rank(j) = p]]

\* numpy.argmax(numpy.abs(v)), 0-based: the first index of the largest |v[i]|.
ArgMaxAbs(v) ==
    (CHOOSE i \in 1 .. Len(v) :
        /\ \A j \in 1 .. Len(v) : Le(FAbs(v[j]), FAbs(v[i]))
        /\ \A j \in 1 .. (i - 1) : Lt(FAbs(v[j]), FAbs(v[i]))) - 1

\* Lines 137-141: the three arrays truncated to the common length and the
\* rows <<t, u, y>> with a non-finite value removed.
FiniteRows(rt, ru, ry) ==
    Let(Min2(Len(rt), Min2(Len(ru), Len(ry))), LAMBDA n :
        Compress([i \in 1 .. n |-> <<rt[i], ru[i], ry[i]>>],
                 [i \in 1 .. n |-> IsFinite(rt[i]) /\ IsFinite(ru[i]) /\ IsFinite(ry[i])]))

\* Deduplicate that keeps every row.
keep_repeated_times(srt) == srt

\* Lines 152-153: the rows whose time exceeds the time of the row before, and
\* the first row.
Deduplicate(srt) ==
    Compress(srt, [i \in 1 .. Len(srt) |-> i = 1 \/ Gt(Sub(srt[i][1], srt[i - 1][1]), F(0))])

\* Lines 132-153: the cleaned arrays; short is the test of line 143, made
\* before the rows are sorted and deduplicated.
Clean(rt, ru, ry) ==
    Let(FiniteRows(rt, ru, ry), LAMBDA rows :
    Let(Deduplicate(SortRows(rows)), LAMBDA kept :
        [short |-> Len(rows) < 3,
         t |-> [i \in 1 .. Len(kept) |-> kept[i][1]],
         u |-> [i \in 1 .. Len(kept) |-> kept[i][2]],
         y |-> [i \in 1 .. Len(kept) |-> kept[i][3]]]))

\* Lines 166-170: the levels before and after the step at step_idx with
\* windows of wa samples before and wb after.
\* pre_level with the first sample alone as the level when the step is at
\* the first sample.
pre_level_first_sample(a, step_idx, wa) ==
    IF step_idx > 0 THEN Median(Slice(a, Max2(0, step_idx - wa), step_idx))
    ELSE Median(Slice(a, 0, 1))

pre_level(a, step_idx, wa) ==
    IF step_idx > 0 THEN Median(Slice(a, Max2(0, step_idx - wa), step_idx))
    ELSE Median(Slice(a, 0, wa))

post_level(a, step_idx, wb) ==
    IF step_idx + 1 < Len(a)
    THEN Median(Slice(a, step_idx + 1, Min2(Len(a), step_idx + 1 + wb)))
    ELSE Median(Tail_w(a, wb))

\* Lines 175-181: the input step with the wider windows, which replace u0
\* and u1 only where the narrow ones took a window beside the step.
du_wide(cu, step_idx, u0, u1) ==
    Sub(IF step_idx + 1 < Len(cu)
        THEN Median(Slice(cu, step_idx + 1, Min2(Len(cu), step_idx + 1 + w_post2)))
        ELSE u1,
        IF step_idx > 0 THEN Median(Slice(cu, Max2(0, step_idx - w_pre2), step_idx))
        ELSE u0)

\* DetectStep with du from the wider windows whatever the narrow ones give.
DetectStep_always_wide(cu, cy) ==
    Let(ArgMaxAbs(Diff(cu)), LAMBDA step_idx :
    Let(pre_level(cu, step_idx, w_pre), LAMBDA u0 :
    Let(post_level(cu, step_idx, w_post), LAMBDA u1 :
    Let(pre_level(cy, step_idx, w_pre), LAMBDA y0n :
    Let(Median(Tail_w(cy, w_post)), LAMBDA y1 :
        [step_idx |-> step_idx,
         y0 |-> y0n,
         du_narrow |-> Sub(u1, u0),
         retried |-> TRUE,
         du |-> du_wide(cu, step_idx, u0, u1),
         y1_window |-> Max2(0, Len(cy) - w_post) .. (Len(cy) - 1),
         y1 |-> y1,
         den_norm |-> Sub(y1, y0n)])))))

\* Lines 163-181: the step index, the levels and the step magnitudes of the
\* cleaned arrays cu, cy (of at least two samples); y1_window is the set of
\* the indices, from 0, of the samples of y[-w_post:], whose median is y1.
DetectStep(cu, cy) ==
    Let(ArgMaxAbs(Diff(cu)), LAMBDA step_idx :
    Let(pre_level(cu, step_idx, w_pre), LAMBDA u0 :
    Let(post_level(cu, step_idx, w_post), LAMBDA u1 :
    Let(pre_level(cy, step_idx, w_pre), LAMBDA y0n :
    Let(Median(Tail_w(cy, w_post)), LAMBDA y1 :
        [step_idx |-> step_idx,
         y0 |-> y0n,
         du_narrow |-> Sub(u1, u0),
         retried |-> Lt(FAbs(Sub(u1, u0)), eps),
         du |-> IF Lt(FAbs(Sub(u1, u0)), eps) THEN du_wide(cu, step_idx, u0, u1)
                ELSE Sub(u1, u0),
         y1_window |-> Max2(0, Len(cy) - w_post) .. (Len(cy) - 1),
         y1 |-> y1,
         den_norm |-> Sub(y1, y0n)])))))

\* The return statement load_data reaches once the arrays are cleaned.
step_branch(c) ==
    IF c.short THEN [branch |-> "short", c |-> c]
    ELSE IF Len(Diff(c.u)) = 0 THEN [branch |-> "nostep", c |-> c]
    ELSE Let(DetectStep(c.u, c.y), LAMBDA s :
             IF Lt(FAbs(s.du), eps) \/ Lt(FAbs(s.den_norm), eps)
             THEN [branch |-> "invalid", c |-> c, s |-> s]
             ELSE [branch |-> "end", c |-> c, s |-> s])

\* What load_data computes from the file alone: the return statement it
\* reaches (branch) and, past the cleaning, the cleaned arrays c and the
\* step s.
read_file(f) ==
    IF ~f.readable THEN [branch |-> "read"]
    ELSE Let(<<find_first_key(f.data, t_aliases), find_first_key(f.data, u_aliases),
               find_first_key(f.data, y_aliases)>>, LAMBDA key :
             IF key[1] = 0 \/ key[2] = 0 \/ key[3] = 0 THEN [branch |-> "keys"]
             ELSE Let(Clean(f.data[key[1]].val, f.data[key[2]].val, f.data[key[3]].val),
                      LAMBDA c : step_branch(c)))

\* Lines 122-124: t_key, u_key and y_key for the file f, each None or a key
\* of the dict; None for a file that cannot be read, where they are not
\* computed.
found_keys(f) ==
    LET key_of(aliases) ==
            Let(find_first_key(f.data, aliases), LAMBDA i :
                IF i = 0 THEN None ELSE Some(f.data[i].key))
    IN  IF ~f.readable THEN None
        ELSE Some(<<key_of(t_aliases), key_of(u_aliases), key_of(y_aliases)>>)

\* dct.keys(): the keys of the dict of the file f, in its order.
dict_keys(f) == [i \in 1 .. Len(f.data) |-> f.data[i].key]

----------------------------------------------------------------------------
(* The files a session may be given.                                       *)

\* The array of the floats of a sequence of integers.
Fs(s) == [i \in 1 .. Len(s) |-> F(s[i])]

MatFile(kt, ku, ky, rt, ru, ry) ==
    [readable |-> TRUE,
     data |-> << [key |-> kt, val |-> rt], [key |-> ku, val |-> ru], [key |-> ky, val |-> ry] >>]

\* A file with the arrays under the keys t, u and y.
Tuy(rt, ru, ry) == MatFile(<<"t">>, <<"u">>, <<"y">>, rt, ru, ry)

\* Files load_data rejects: unreadable; no output array; two samples; one
\* distinct time; no input step; no output change; an input step at the
\* first sample; times out of order; two distinct times.
BadFiles ==
    { [readable |-> FALSE, data |-> << >>],
      [readable |-> TRUE,
       data |-> << [key |-> <<"t">>, val |-> Fs(<<0, 1, 2, 3>>)],
                   [key |-> <<"u">>, val |-> Fs(<<0, 0, 1, 1>>)] >>],
      Tuy(Fs(<<0, 1>>), Fs(<<0, 0, 1, 1>>), Fs(<<0, 1, 4, 4>>)),
      Tuy(Fs(<<1, 1, 1, 1>>), Fs(<<0, 0, 1, 1>>), Fs(<<0, 1, 4, 4>>)),
      Tuy(Fs(<<0, 1, 2, 3>>), Fs(<<0, 0, 0, 0>>), Fs(<<0, 1, 4, 4>>)),
      Tuy(Fs(<<0, 1, 2, 3>>), Fs(<<0, 0, 1, 1>>), Fs(<<0, 0, 0, 0>>)),
      Tuy(Fs(<<0, 1, 2, 3>>), Fs(<<0, 1, 1, 1>>), Fs(<<0, 1, 4, 4>>)),
      Tuy(Fs(<<2, 0, 1, 3>>), Fs(<<0, 0, 1, 1>>), Fs(<<0, 1, 4, 4>>)),
      Tuy(Fs(<<0, 0, 1, 1>>), Fs(<<0, 0, 1, 1>>), Fs(<<0, 1, 4, 4>>)) }

\* Files load_data accepts: responses on which both methods, one of them or
\* neither give a valid model; a falling response; a repeated time; a
\* non-finite time; a larger input step; longer keys.
GoodFiles ==
    { Tuy(Fs(<<0, 1, 2, 3>>), Fs(<<0, 0, 1, 1>>), Fs(<<0, 1, 4, 4>>)),
      Tuy(Fs(<<0, 1, 2, 3>>), Fs(<<0, 0, 1, 1>>), Fs(<<0, 1, 5, 5>>)),
      Tuy(Fs(<<0, 1, 4, 5>>), Fs(<<0, 0, 1, 1>>), Fs(<<0, 1, 4, 4>>)),
      Tuy(Fs(<<0, 1, 2, 3>>), Fs(<<0, 0, 1, 1>>), Fs(<<0, 1, 10, 20>>)),
      Tuy(Fs(<<0, 1, 2, 3>>), Fs(<<0, 0, 1, 1>>), Fs(<<0, 5, 5, 5>>)),
      Tuy(Fs(<<0, 1, 2, 3>>), Fs(<<0, 0, 1, 1>>), Fs(<<5, 4, 1, 1>>)),
      Tuy(Fs(<<0, 1, 1, 2>>), Fs(<<0, 0, 1, 1>>), Fs(<<0, 1, 4, 4>>)),
      Tuy(<<F(0), F(1), NaN, F(2), F(3)>>, Fs(<<0, 0, 1, 1>>), Fs(<<0, 1, 5, 5>>)),
      Tuy(Fs(<<0, 1, 2, 3>>), Fs(<<0, 0, 0, 2>>), Fs(<<0, 1, 4, 4>>)),
      MatFile(<<"T","e","m","p","o">>, <<"d","a","d","o","s","/","E","n","t","r","a","d","a">>,
              <<"S","a","l","i","d","a">>,
              Fs(<<1, 2, 3, 4>>), Fs(<<0, 0, 1, 1>>), Fs(<<0, 1, 4, 4>>)) }

Files == BadFiles \cup GoodFiles

\* n samples of the value x.
Rep(x, n) == [i \in 1 .. n |-> F(x)]

\* The times 0, 1, ..., n - 1.
Ramp(n) == [i \in 1 .. n |-> F(i - 1)]

\* A record longer than the windows of the step detection, with the input
\* at 0 for 28 samples, at 1 for 25, at 3 for one and at 1 for two, and a
\* rising output.  The largest input change is the one to 3; the 25 samples
\* before it and the 3 after it have the median 1, the 50 before it the
\* median 0.
RetryFile == Tuy(Ramp(56), Rep(0, 28) \o Rep(1, 25) \o Fs(<<3, 1, 1>>), Ramp(56))

\* The same with the input at 2 after the change to 3: the narrow windows
\* give du = 1, the wider ones would give 2.
NarrowFile == Tuy(Ramp(56), Rep(0, 28) \o Rep(1, 25) \o Fs(<<3, 2, 2>>), Ramp(56))

\* An input that leaves 0 for one sample only, with an output that rises:
\* du is 0 with the narrow and with the wider windows.
SpikeFile == Tuy(Ramp(5), Fs(<<0, 0, 5, 0, 0>>), Fs(<<0, 0, 1, 4, 4>>))

\* The response, in thousandths and sampled once per unit of time, of the
\* plant 2 e^(-3s) / (4s + 1) to a unit step at the sixth sample: 0 up to
\* three units after the step, then 2 (1 - e^(-x/4)) at x units past the
\* dead time.
FopdtThousandths ==
    << 0, 0, 0, 0, 0, 0, 0, 0, 0, 442, 787, 1055, 1264, 1427, 1554, 1652, 1729,
       1789, 1836, 1872, 1900, 1922, 1940, 1953, 1963, 1971, 1978, 1983, 1987,
       1990, 1992, 1994, 1995, 1996, 1997, 1998, 1998, 1999, 1999, 1999, 1999,
       1999, 2000, 2000, 2000, 2000, 2000, 2000, 2000, 2000 >>

\* The times of that record when the input steps at ts: the sixth sample
\* is at ts and the samples are one unit apart.
FopdtTimes(ts) == [i \in 1 .. Len(FopdtThousandths) |-> F(i - 6 + ts)]

\* The record of that response with the input step at the time ts.
FopdtFile(ts) ==
    Tuy(FopdtTimes(ts), Rep(0, 5) \o Rep(1, Len(FopdtThousandths) - 5),
        [i \in 1 .. Len(FopdtThousandths) |-> Q(FopdtThousandths[i], 1000)])

\* Files that exercise the step detection and the identification.
StepFiles == { RetryFile, NarrowFile, SpikeFile, FopdtFile(0), FopdtFile(5) }

ReadStepFiles == {[file |-> f, read |-> read_file(f)] : f \in StepFiles}

\* The array a file holds under a key: the times under 'time', the input
\* under 'input' and the output under whatever else.
KeyArray(key) ==
    IF Lower(key) = <<"t","i","m","e">> THEN Fs(<<0, 1, 2, 3>>)
    ELSE IF Lower(key) = <<"i","n","p","u","t">> THEN Fs(<<0, 0, 1, 1>>)
    ELSE Fs(<<0, 1, 4, 4>>)

\* A file whose dict has the keys ks, in that order.
KeyFile(ks) ==
    [readable |-> TRUE,
     data |-> [i \in 1 .. Len(ks) |-> [key |-> ks[i], val |-> KeyArray(ks[i])]]]

\* The dicts of the files with the keys 'time', 'input' and 'output': the
\* six orders of the three keys, two in other letter cases, and three with
\* one of the keys missing.
KeyOrders ==
    LET time == <<"t","i","m","e">>
        input == <<"i","n","p","u","t">>
        output == <<"o","u","t","p","u","t">>
    IN  { <<time, input, output>>, <<time, output, input>>,
          <<input, time, output>>, <<input, output, time>>,
          <<output, time, input>>, <<output, input, time>>,
          << <<"T","i","m","e">>, <<"I","N","P","U","T">>, <<"O","u","t","p","u","t">> >>,
          << <<"O","U","T","P","U","T">>, <<"I","n","p","u","t">>, <<"T","I","M","E">> >>,
          <<time, input>>, <<time, output>>, <<input, output>> }

\* Files that exercise the search of the keys.
KeyFiles == {KeyFile(ks) : ks \in KeyOrders}

ReadKeyFiles == {[file |-> f, read |-> read_file(f)] : f \in KeyFiles}

\* Every file with what load_data reads from it.
ReadFiles == {[file |-> f, read |-> read_file(f)] : f \in Files}

\* The attributes load_data leaves and the value it returns in the current
\* state, for a file read as p, with the number of samples the cleaning has
\* left and the step detected in them, where load_data gets that far: the four early returns reset t, u, y, k, tau
\* and theta and nothing else; the invalid-step return and the final return
\* store the cleaned arrays and the step.
load_outcome(p) ==
    IF p.branch \in {"read", "keys", "short", "nostep"}
    THEN [ret |-> FALSE, branch |-> p.branch,
          samples |-> IF p.branch \in {"read", "keys"} THEN None ELSE Some(Len(p.c.t)),
          step |-> None,
          t |-> None, u |-> None, y |-> None,
          y0 |-> y0, du |-> du, den_norm |-> den_norm,
          k |-> NaN, tau |-> NaN, theta |-> NaN]
    ELSE IF p.branch = "invalid"
    THEN [ret |-> FALSE, branch |-> p.branch,
          samples |-> Some(Len(p.c.t)), step |-> Some(p.s),
          t |-> Some(p.c.t), u |-> Some(p.c.u), y |-> Some(p.c.y),
          y0 |-> p.s.y0, du |-> p.s.du, den_norm |-> p.s.den_norm,
          k |-> NaN, tau |-> tau, theta |-> theta]
    ELSE [ret |-> IsFinite(Div(p.s.den_norm, p.s.du)), branch |-> p.branch,
          samples |-> Some(Len(p.c.t)), step |-> Some(p.s),
          t |-> Some(p.c.t), u |-> Some(p.c.u), y |-> Some(p.c.y),
          y0 |-> p.s.y0, du |-> p.s.du, den_norm |-> p.s.den_norm,
          k |-> Div(p.s.den_norm, p.s.du), tau |-> tau, theta |-> theta]

----------------------------------------------------------------------------
(* run_identification.                                                     *)

\* _time_at_norm: the time of the first sample whose normalised output
\* (y - y0)/den_norm reaches percent; NaN if there is none.
time_at_norm(percent) ==
    IF t = None \/ ~IsFinite(den_norm) \/ AbsBelowPow10(den_norm, 9) THEN NaN
    ELSE LET idx == {i \in 1 .. Len(y[1]) :
                        Ge(Div(Sub(y[1][i], y0), den_norm), percent)}
         IN  IF idx = {} THEN NaN
             ELSE t[1][CHOOSE i \in idx : \A j \in idx : i <= j]

\* _simulate_fopdt returns an array of NaN (lines 49-50 and 57-58) instead of
\* the response of the plant.
simulate_fopdt_is_nan(kk, tau_c, th_c) ==
    \/ ~(IsFinite(kk) /\ IsFinite(tau_c) /\ IsFinite(th_c))
    \/ Le(tau_c, F(0))
    \/ Lt(th_c, F(0))
    \/ AbsBelowPow10(kk, 12)
    \/ ~IsFinite(den_norm)

\* _rmse of the simulated plant against y: +inf for an array of NaN, and
\* otherwise the root mean square error e of the response that
\* control.step_response computed.
rmse(kk, tau_c, th_c, e) ==
    IF simulate_fopdt_is_nan(kk, tau_c, th_c) THEN PosInf ELSE e

\* The errors the response engine may give.
RmseVals == {F(i) : i \in 0 .. MaxRmse} \cup {PosInf}

\* qualifies without the test of theta.
qualifies_any_theta(tau_c, th_c) ==
    IsFinite(tau_c) /\ Gt(tau_c, F(0))

\* Line 228: the candidate is kept.
qualifies(tau_c, th_c) ==
    IsFinite(tau_c) /\ Gt(tau_c, F(0)) /\ IsFinite(th_c) /\ Ge(th_c, F(0))

\* Python's min(candidates, key=lambda x: x[0]): the first candidate that no
\* later one is strictly below.
RECURSIVE min_candidate(_)

\* min_candidate taking the last of the candidates of least error.
min_candidate_last(c) ==
    IF Len(c) = 1 THEN c[1]
    ELSE Let(min_candidate(SubSeq(c, 1, Len(c) - 1)), LAMBDA b :
             IF Le(c[Len(c)].rmse, b.rmse) THEN c[Len(c)] ELSE b)

min_candidate(c) ==
    IF Len(c) = 1 THEN c[1]
    ELSE Let(min_candidate(SubSeq(c, 1, Len(c) - 1)), LAMBDA b :
             IF Lt(c[Len(c)].rmse, b.rmse) THEN c[Len(c)] ELSE b)

\* Lines 201-207: the Smith estimate from the 28.3% and 63.2% times.
smith ==
    LET t1s == time_at_norm(Q(283, 1000))
        t2s == time_at_norm(Q(632, 1000))
    IN  IF IsFinite(t1s) /\ IsFinite(t2s) /\ Gt(t2s, t1s)
        THEN [tau |-> Mul(Q(3, 2), Sub(t2s, t1s)),
              theta |-> Sub(t2s, Mul(Q(3, 2), Sub(t2s, t1s)))]
        ELSE [tau |-> NaN, theta |-> NaN]

\* Lines 212-218: the Sundaresan & Krishnaswamy estimate from the 35.3% and
\* 85.3% times.
sundaresan ==
    LET t1u == time_at_norm(Q(353, 1000))
        t2u == time_at_norm(Q(853, 1000))
    IN  IF IsFinite(t1u) /\ IsFinite(t2u) /\ Gt(t2u, t1u)
        THEN [tau |-> Mul(Q(2, 3), Sub(t2u, t1u)),
              theta |-> Sub(Mul(Q(13, 10), t1u), Mul(Q(29, 100), t2u))]
        ELSE [tau |-> NaN, theta |-> NaN]

\* Lines 233-235: the delay-free estimate from the 10% and 90% times.
backup ==
    LET t10 == time_at_norm(Q(1, 10))
        t90 == time_at_norm(Q(9, 10))
    IN  [ok |-> IsFinite(t10) /\ IsFinite(t90) /\ Gt(t90, t10),
         tau |-> Div(Sub(t90, t10), Q(22, 10)),
         theta |-> F(0)]

\* Lines 223-229: the candidates in the order of the loop, given the two
\* estimates and their errors.
candidates(sm, su, rmse_smith, rmse_sun) ==
    (IF qualifies(sm.tau, sm.theta)
     THEN << [rmse |-> rmse_smith, name |-> "Smith", tau |-> sm.tau, theta |-> sm.theta] >>
     ELSE << >>)
    \o
    (IF qualifies(su.tau, su.theta)
     THEN << [rmse |-> rmse_sun, name |-> "Sundaresan", tau |-> su.tau, theta |-> su.theta] >>
     ELSE << >>)

\* with_backup putting the fallback before the other candidates, whether or
\* not there are any.
with_backup_always(cands, bk, rmse0) ==
    (IF bk.ok
     THEN << [rmse |-> rmse0, name |-> "SemAtraso(backup)", tau |-> bk.tau, theta |-> bk.theta] >>
     ELSE << >>) \o cands

\* Lines 231-240: the candidates after the fallback; empty when the method
\* returns None at line 240.
with_backup(cands, bk, rmse0) ==
    IF cands # << >> THEN cands
    ELSE IF bk.ok
    THEN << [rmse |-> rmse0, name |-> "SemAtraso(backup)", tau |-> bk.tau, theta |-> bk.theta] >>
    ELSE << >>

\* What run_identification returns and stores, given its estimates sm, su
\* and bk (smith, sundaresan, backup) and the errors es, eu and e0 that the
\* response engine reports for their simulations: none is "it returned
\* None"; entered is "it passed the test of line 198"; q_smith, q_sun,
\* rmse_smith and rmse_sun are the locals of the call; the other fields are
\* the returned dict ('t_exp' and 'y_exp' are self.t and self.y; the fitted
\* curve 'y_model' is the response engine's and is left out).
ident_outcome(sm, su, bk, es, eu, e0) ==
    IF t = None \/ ~IsFinite(k)
    THEN [none |-> TRUE, entered |-> FALSE, q_smith |-> FALSE, q_sun |-> FALSE,
          rmse_smith |-> NaN, rmse_sun |-> NaN, backup_ok |-> FALSE,
          k |-> NaN, tau |-> NaN, theta |-> NaN, rmse |-> NaN, method_id |-> "N/A"]
    ELSE
      LET rs == rmse(k, sm.tau, sm.theta, es)
          ru == rmse(k, su.tau, su.theta, eu)
          c2 == with_backup(candidates(sm, su, rs, ru), bk, rmse(k, bk.tau, bk.theta, e0))
          loc == [entered |-> TRUE,
                  q_smith |-> qualifies(sm.tau, sm.theta),
                  q_sun |-> qualifies(su.tau, su.theta),
                  rmse_smith |-> rs, rmse_sun |-> ru, backup_ok |-> bk.ok]
      IN  IF c2 = << >>
          THEN loc @@ [none |-> TRUE, k |-> NaN, tau |-> NaN, theta |-> NaN,
                       rmse |-> NaN, method_id |-> "N/A"]
          ELSE LET best == min_candidate(c2)
               IN  loc @@ [none |-> FALSE, k |-> k, tau |-> best.tau, theta |-> best.theta,
                           rmse |-> best.rmse, method_id |-> best.name]

\* The errors the response engine can report for a simulation of the plant
\* (kk, tau_c, th_c): any, when _simulate_fopdt calls it; none that matters
\* (the error is +inf) when _simulate_fopdt returns NaN without calling it.
engine_errors(kk, tau_c, th_c) ==
    IF simulate_fopdt_is_nan(kk, tau_c, th_c) THEN {PosInf} ELSE RmseVals

----------------------------------------------------------------------------
(* calculate_pid_tuning.  The operators take the model m they are applied  *)
(* to: the attributes k, tau, theta and method_id at the time of the call. *)

\* The model as the attributes hold it.
fopdt_model == [k |-> k, tau |-> tau, theta |-> theta, method_id |-> method_id]

\* numpy's x ** e for x >= 0 and a non-integer exponent e, known here by its
\* sign only: 0 ** e is +inf for e < 0 and 0 for e > 0.  A rational cannot
\* hold an irrational power, so for x > 0 the exponent is rounded to -1 or
\* 1, which keeps the result positive and finite.
Pow(x, esign) ==
    IF IsNaN(x) THEN NaN
    ELSE IF esign < 0 THEN Div(F(1), x)
    ELSE x

Methods ==
    {"Ziegler-Nichols MA", "IMC", "CHR sem Sobressinal", "CHR com Sobressinal",
     "ITAE", "Cohen e Coon"}

\* tuning_model_valid without the tests of tau and theta.
tuning_model_valid_ignores_tau(m) == IsFinite(m.k) /\ m.k # F(0)

\* Line 261: the model m = [k, tau, theta, method_id] is one the rules can
\* be applied to.
tuning_model_valid(m) ==
    IsFinite(m.k) /\ Gt(m.tau, F(0)) /\ Ge(m.theta, F(0)) /\ m.k # F(0)

\* Lines 265-294: <<Kp, Ti, Td>> of the rule named method; NaN for a name
\* that is none of the six.
tuning_rule(m, method, lambda_val) ==
    LET r == Div(m.theta, m.tau)
        lam == IF lambda_val # None /\ Gt(lambda_val[1], F(0)) THEN lambda_val[1] ELSE F(1)
    IN  CASE method = "Ziegler-Nichols MA" ->
               << Div(Mul(Q(12, 10), m.tau), Mul(m.k, m.theta)), Mul(F(2), m.theta), Div(m.theta, F(2)) >>
          [] method = "IMC" ->
               << Div(Add(Mul(F(2), m.tau), m.theta), Mul(m.k, Add(Mul(F(2), lam), m.theta))),
                  Add(m.tau, Div(m.theta, F(2))),
                  Div(Mul(m.tau, m.theta), Add(Mul(F(2), m.tau), m.theta)) >>
          [] method = "CHR sem Sobressinal" ->
               << Div(Mul(Q(6, 10), m.tau), Mul(m.k, m.theta)), m.tau, Div(m.theta, F(2)) >>
          [] method = "CHR com Sobressinal" ->
               << Div(Mul(Q(95, 100), m.tau), Mul(m.k, m.theta)), Mul(Q(1357, 1000), m.tau),
                  Mul(Q(473, 1000), m.theta) >>
          [] method = "ITAE" ->
               << Mul(Div(Q(965, 1000), m.k), Pow(r, -1)),
                  Mul(m.tau, Add(Q(796, 1000), Mul(Q(-147, 1000), r))),
                  Mul(Mul(m.tau, Q(308, 1000)), Pow(r, 1)) >>
          [] method = "Cohen e Coon" ->
               << Div(Mul(Div(F(1), m.k), Add(Mul(F(16), m.tau), Mul(F(3), m.theta))),
                      Mul(F(12), m.theta)),
                  Div(Mul(m.theta, Add(F(32), Mul(F(6), r))), Add(F(13), Mul(F(8), r))),
                  Div(Mul(F(4), m.theta), Add(F(11), Mul(F(2), r))) >>
          [] OTHER -> <<NaN, NaN, NaN>>

\* What calculate_pid_tuning returns, which is also what it stores.
tuning_outcome(m, method, lambda_val) ==
    IF ~tuning_model_valid(m) THEN <<F(0), F(0), F(0)>>
    ELSE tuning_rule(m, method, lambda_val)

\* The two float types.  A division by zero, or a negative power of zero,
\* gives +-inf or NaN (and a warning) when an operand is a numpy float64;
\* between two Python floats it raises ZeroDivisionError.  For a valid
\* model: k is the quotient of two Python floats (lines 166-173, 190); tau
\* is computed from elements of the float64 array self.t (lines 42, 204,
\* 215, 235); theta is so too for Smith and Sundaresan (lines 205, 216) and
\* is the Python literal 0.0 for the fallback (line 235).  An operation has
\* a float64 result when an operand is float64.
k_is_float64 == FALSE

\* tau as a Python float.
tau_is_python_float == FALSE

tau_is_float64 == TRUE

theta_is_float64(m) == m.method_id # "SemAtraso(backup)"

\* a / b raises: a_f64 and b_f64 tell which operands are float64.
zero_division(a_f64, b_f64, b) == ~a_f64 /\ ~b_f64 /\ b = F(0)

\* x ** e with e < 0 a Python float raises.
zero_power(x_f64, x) == ~x_f64 /\ x = F(0)

\* Lines 265-294: the rule named method raises ZeroDivisionError.
tuning_raises(m, method, lambda_val) ==
    LET r == Div(m.theta, m.tau)
        r_f64 == theta_is_float64(m) \/ tau_is_float64
        lam == IF lambda_val # None /\ Gt(lambda_val[1], F(0)) THEN lambda_val[1] ELSE F(1)
    IN  CASE method \in {"Ziegler-Nichols MA", "CHR sem Sobressinal", "CHR com Sobressinal"} ->
               zero_division(tau_is_float64, k_is_float64 \/ theta_is_float64(m), Mul(m.k, m.theta))
          [] method = "IMC" ->
               \/ zero_division(tau_is_float64 \/ theta_is_float64(m),
                                k_is_float64 \/ theta_is_float64(m),
                                Mul(m.k, Add(Mul(F(2), lam), m.theta)))
               \/ zero_division(tau_is_float64 \/ theta_is_float64(m),
                                tau_is_float64 \/ theta_is_float64(m),
                                Add(Mul(F(2), m.tau), m.theta))
          [] method = "ITAE" ->
               \/ zero_division(theta_is_float64(m), tau_is_float64, m.tau)
               \/ zero_division(FALSE, k_is_float64, m.k)
               \/ zero_power(r_f64, r)
          [] method = "Cohen e Coon" ->
               \/ zero_division(theta_is_float64(m), tau_is_float64, m.tau)
               \/ zero_division(FALSE, k_is_float64, m.k)
               \/ zero_division(k_is_float64 \/ tau_is_float64 \/ theta_is_float64(m),
                                theta_is_float64(m), Mul(F(12), m.theta))
               \/ zero_division(r_f64, r_f64, Add(F(13), Mul(F(8), r)))
               \/ zero_division(theta_is_float64(m), r_f64, Add(F(11), Mul(F(2), r)))
          [] OTHER -> FALSE

\* The call calculate_pid_tuning(method, lambda_val): whether it raises, and
\* the triple it returns and stores when it does not.
tuning_call(m, method, lambda_val) ==
    IF tuning_model_valid(m) /\ tuning_raises(m, method, lambda_val)
    THEN [raised |-> TRUE, ret |-> None]
    ELSE [raised |-> FALSE, ret |-> tuning_outcome(m, method, lambda_val)]

\* The calls of calculate_pid_tuning: each rule and one unknown name without
\* lambda, and IMC with a positive and with a non-positive lambda.
TuningCalls ==
    {<<m, None>> : m \in Methods \cup {"?"}}
    \cup {<<"IMC", Some(F(2))>>, <<"IMC", Some(F(0))>>}

----------------------------------------------------------------------------
(* calculate_metrics.                                                      *)

\* numpy.max: NaN if a sample is NaN.
RECURSIVE MaxOf(_)
MaxOf(a) ==
    IF Len(a) = 1 THEN a[1]
    ELSE Let(MaxOf(Tail(a)), LAMBDA m :
             IF IsNaN(a[1]) \/ IsNaN(m) THEN NaN
             ELSE IF Gt(a[1], m) THEN a[1] ELSE m)

\* The first index of s in the set idx (numpy.where(...)[0][0]).
FirstOf(idx) == CHOOSE i \in idx : \A j \in idx : i <= j
LastOf(idx) == CHOOSE i \in idx : \A j \in idx : j <= i

\* Line 359: the indices of the samples outside the +-2% band.
outside_band(ys, y_final) ==
    {i \in 1 .. Len(ys) :
        Gt(FAbs(Sub(ys[i], y_final)), Mul(Q(2, 100), FAbs(y_final)))}

\* settling_time scanning from the front: the time of the first sample in
\* the band.
settling_time_first_entry(ts, ys, y_final) ==
    LET inside == (1 .. Len(ys)) \ outside_band(ys, y_final)
    IN  IF inside # {} THEN ts[FirstOf(inside)] ELSE ts[Len(ts)]

\* Line 360: the settling time from the last index outside the band.
settling_time(ts, ys, y_final) ==
    LET outside == outside_band(ys, y_final)
    IN  IF outside # {} /\ LastOf(outside) + 1 <= Len(ts) THEN ts[LastOf(outside) + 1]
        ELSE IF outside # {} THEN ts[Len(ts)]
        ELSE ts[1]

\* rise_time with the 90% time taken at the last sample at or above 90% of
\* y_final.
rise_time_last_crossing(ts, ys, y_final) ==
    LET i10 == {i \in 1 .. Len(ys) : Ge(ys[i], Mul(Q(1, 10), y_final))}
        i90 == {i \in 1 .. Len(ys) : Ge(ys[i], Mul(Q(9, 10), y_final))}
        t10 == IF i10 # {} THEN ts[FirstOf(i10)] ELSE NaN
        t90 == IF i90 # {} THEN ts[LastOf(i90)] ELSE NaN
    IN  IF IsFinite(t10) /\ IsFinite(t90) THEN Sub(t90, t10) ELSE NaN

\* Lines 351-353: the rise time from the first samples at or above 10% and
\* 90% of y_final.
rise_time(ts, ys, y_final) ==
    LET i10 == {i \in 1 .. Len(ys) : Ge(ys[i], Mul(Q(1, 10), y_final))}
        i90 == {i \in 1 .. Len(ys) : Ge(ys[i], Mul(Q(9, 10), y_final))}
        t10 == IF i10 # {} THEN ts[FirstOf(i10)] ELSE NaN
        t90 == IF i90 # {} THEN ts[FirstOf(i90)] ELSE NaN
    IN  IF IsFinite(t10) /\ IsFinite(t90) THEN Sub(t90, t10) ELSE NaN

\* Lines 348-362: the metrics of the arrays ts, ys (ys has a finite sample)
\* for the float y_final.
metrics_of(ts, ys, y_final) ==
      LET Mp_value == MaxOf(ys)
      IN  [tr |-> rise_time(ts, ys, y_final),
           ts |-> settling_time(ts, ys, y_final),
           Mp |-> IF y_final # F(0) /\ Gt(Mp_value, y_final)
                  THEN Mul(Div(Sub(Mp_value, y_final), y_final), F(100))
                  ELSE F(0),
           ess |-> FAbs(Sub(y_final, ys[Len(ys)]))]

\* calculate_metrics(t, y, y_final): y and y_final may be None.
calculate_metrics(ts, y_arg, y_final) ==
    IF y_arg = None \/ y_final = None \/ Len(y_arg[1]) = 0
       \/ ~(\E i \in 1 .. Len(y_arg[1]) : IsFinite(y_arg[1][i]))
    THEN [tr |-> NaN, ts |-> NaN, Mp |-> NaN, ess |-> NaN]
    ELSE metrics_of(ts, y_arg[1], y_final[1])

----------------------------------------------------------------------------
(* simulate_closed_loop.                                                   *)

\* _get_pid_tf returns the null transfer function tf([0], [1]).
\* pid_tf_is_null without the test of the gains being finite.
pid_tf_is_null_finite_only(kp, ti, td) ==
    Le(ti, F(0)) \/ (kp = F(0) /\ ti = F(0) /\ td = F(0))

pid_tf_is_null(kp, ti, td) ==
    \/ ~IsFinite(kp) \/ ~IsFinite(ti) \/ ~IsFinite(td)
    \/ Le(ti, F(0))
    \/ (kp = F(0) /\ ti = F(0) /\ td = F(0))

\* simulate_guard_fails without the test of tau.
simulate_guard_ignores_tau == t = None \/ ~IsFinite(k)

\* Line 308: simulate_closed_loop returns (None, None, None).
simulate_guard_fails == t = None \/ ~IsFinite(tau) \/ ~IsFinite(k)

\* Lines 312-314: the gains the simulation uses, from the arguments and the
\* stored gains.
used_gains(k_p, t_i, t_d) ==
    << IF k_p # None /\ IsFinite(k_p[1]) THEN k_p[1] ELSE Kp,
       IF t_i # None /\ Gt(t_i[1], Q(1, 1000000)) /\ IsFinite(t_i[1])
       THEN t_i[1] ELSE Q(1, 1000000),
       IF t_d # None /\ IsFinite(t_d[1]) THEN t_d[1] ELSE Td >>

\* The unit-step responses control.step_response may return at n time
\* points for a controller that is not zero: a rise to 1 and a ramp.
UnitResponses(n) ==
    { [i \in 1 .. n |-> IF i = 1 THEN F(0) ELSE F(1)],
      [i \in 1 .. n |-> F(i - 1)] }

\* The unit-step response of the closed loop with the gains g: zero at every
\* time point when the controller is null or its numerator
\* [Kp*Td, Kp, Kp/Ti] is zero, else one the response engine computes.
closed_loop_responses(g, n) ==
    IF pid_tf_is_null(g[1], g[2], g[3]) \/ g[1] = F(0)
    THEN { [i \in 1 .. n |-> F(0)] }
    ELSE UnitResponses(n)

\* Lines 326-335: the returned triple, given the unit response.
simulate_return(setpoint, y_unit) ==
    LET sp == IF setpoint = None \/ ~IsFinite(setpoint[1]) THEN Add(y0, den_norm)
              ELSE setpoint[1]
        y_final_rel == Sub(sp, y0)
        y_cl_rel == [i \in 1 .. Len(y_unit) |-> Mul(y_final_rel, y_unit[i])]
    IN  [none |-> FALSE, t_sim |-> t[1], y_cl_rel |-> y_cl_rel,
         metrics |-> calculate_metrics(t[1], Some(y_cl_rel), Some(y_final_rel))]

\* The responses and targets calculate_metrics is given on its own: every
\* array of at most MaxSamples samples of MetricVals, at the times 1, 3, 5, ...
MaxSamples == 4

MetricVals == {F(0), Q(1, 2), Q(99, 100), F(1), F(2), F(-2), NaN}

MetricTimes(n) == [i \in 1 .. n |-> F(2 * i - 1)]

MetricResponses ==
    {None} \cup {Some(ys) : ys \in UNION {[1 .. n -> MetricVals] : n \in 0 .. MaxSamples}}

MetricTargets == {None, Some(F(1)), Some(F(0)), Some(F(-2))}

\* The arguments <<setpoint, k_p, t_i, t_d>> of the calls of
\* simulate_closed_loop: all omitted; all given; a zero t_i; k_p and t_d
\* omitted; t_i omitted; non-finite k_p and t_d.
SimCalls ==
    { <<None, None, None, None>>,
      <<Some(F(2)), Some(F(2)), Some(F(3)), Some(F(1))>>,
      <<None, Some(F(2)), Some(F(0)), None>>,
      <<Some(F(2)), None, Some(F(3)), None>>,
      <<None, Some(F(2)), None, Some(F(1))>>,
      <<None, Some(NaN), Some(F(3)), Some(PosInf)>> }

----------------------------------------------------------------------------
(* The window.  view holds the widgets of the two tabs that the handlers   *)
(* of MainController read or write: whether the control tab and the        *)
(* identify button are enabled, the tuning mode and method, the spin boxes *)
(* and the title of the message box the last handler has shown ("" for     *)
(* none).                                                                  *)

\* control_tab.py, lines 43-46 and 80: the decimals of every spin box.
Decimals == 4

RECURSIVE Pow10(_)
Pow10(p) == IF p = 0 THEN 1 ELSE 10 * Pow10(p - 1)

\* floor(r * 10^p / d) and the remainder of that division, for 0 <= r < d,
\* one decimal digit at a time.
RECURSIVE scaled_floor(_, _, _)
scaled_floor(r, d, p) ==
    IF p = 0 THEN 0
    ELSE ((r * 10) \div d) * Pow10(p - 1) + scaled_floor((r * 10) % d, d, p - 1)

RECURSIVE scaled_rem(_, _, _)
scaled_rem(r, d, p) == IF p = 0 THEN r ELSE scaled_rem((r * 10) % d, d, p - 1)

\* QDoubleSpinBox rounds a value to its decimals.
round_decimals(v) ==
    IF ~IsFinite(v) \/ Pow10(Decimals) % v.d = 0 THEN v
    ELSE LET whole == v.n \div v.d
             frac  == v.n % v.d
             up    == IF 2 * scaled_rem(frac, v.d, Decimals) >= v.d THEN 1 ELSE 0
         IN  Q(whole * Pow10(Decimals) + scaled_floor(frac, v.d, Decimals) + up,
               Pow10(Decimals))

\* QDoubleSpinBox.setValue(v) of a box made by _create_spin_box(lo, hi): the
\* box rounds its range and the value to its decimals and bounds the value
\* by the range.
set_value(v, lo, hi) ==
    LET r == round_decimals(v)
        l == round_decimals(lo)
        h == round_decimals(hi)
    IN  IF Lt(r, l) THEN l ELSE IF Gt(r, h) THEN h ELSE r

le_kp_box(v) == set_value(v, F(0), F(1000000))
le_ti_box(v) == set_value(v, Q(1, 1000000), F(1000000))
le_td_box(v) == set_value(v, F(0), F(1000000))
le_lambda_box(v) == set_value(v, Q(1, 100), F(1000))
le_setpoint_box(v) == set_value(v, F(-1000000), F(1000000))

\* control_tab.py, lines 12-15: the items of cb_tuning_method, in order.
TUNING_METHODS ==
    << "Ziegler-Nichols MA", "IMC", "CHR sem Sobressinal", "CHR com Sobressinal",
       "Cohen e Coon", "ITAE" >>

\* ControlTab.clear_tuning_fields
clear_tuning_fields(v) ==
    [v EXCEPT !.le_kp = le_kp_box(F(0)), !.le_ti = le_ti_box(Q(1, 100)),
              !.le_td = le_td_box(F(0)), !.le_lambda = le_lambda_box(F(1))]

\* The window when MainWindow and MainController have been constructed on a
\* new PIDModel: the widgets as the views build them, and then the three
\* calls of run_tuning_calculation_action that connect_signals makes, each
\* of which gets (0, 0, 0) from the model and sets the three gain boxes.
view_init ==
    [ control_tab      |-> FALSE,
      btn_identify     |-> FALSE,
      radio_method     |-> TRUE,
      cb_tuning_method |-> TUNING_METHODS[1],
      le_kp            |-> le_kp_box(F(0)),
      le_ti            |-> le_ti_box(F(0)),
      le_td            |-> le_td_box(F(0)),
      le_lambda        |-> le_lambda_box(F(0)),
      le_setpoint      |-> le_setpoint_box(F(1)),
      message          |-> "" ]

----------------------------------------------------------------------------
(* The session.  last records the operation just performed, its arguments  *)
(* and what it returned; identified records whether run_identification has *)
(* returned a model since the last load_data; nops counts the operations.  *)

\* __init__ (lines 13-31)
Init ==
    /\ k = NaN /\ tau = NaN /\ theta = NaN
    /\ t = None /\ u = None /\ y = None
    /\ y0 = NaN /\ du = NaN
    /\ den_norm = NaN
    /\ method_id = "N/A"
    /\ Kp = F(0) /\ Ti = F(0) /\ Td = F(0)
    /\ last = [op |-> "__init__"]
    /\ identified = FALSE
    /\ nops = 0
    /\ view = view_init

\* The attributes load_data assigns, o being load_outcome of the file.
load_data_assigns(o) ==
    /\ t' = o.t /\ u' = o.u /\ y' = o.y
    /\ y0' = o.y0 /\ du' = o.du /\ den_norm' = o.den_norm
    /\ k' = o.k /\ tau' = o.tau /\ theta' = o.theta
    /\ identified' = FALSE
    /\ UNCHANGED method_id

\* load_data(filepath), for the file rf.file at filepath
LoadData(rf) ==
    \E o \in {load_outcome(rf.read)} :
        /\ nops < MaxOps
        /\ nops' = nops + 1
        /\ load_data_assigns(o)
        /\ last' = [op |-> "load_data", ret |-> o.ret, branch |-> o.branch,
                    samples |-> o.samples, step |-> o.step,
                    dict_keys |-> dict_keys(rf.file), keys |-> found_keys(rf.file)]
        /\ UNCHANGED <<Kp, Ti, Td, view>>

\* What run_identification may return: ident_outcome for each error the
\* response engine may report for the candidates it is asked to simulate.
ident_outcomes ==
    UNION { { ident_outcome(sm, su, bk, es, eu, e0) :
                es \in engine_errors(k, sm.tau, sm.theta),
                eu \in engine_errors(k, su.tau, su.theta),
                e0 \in (IF qualifies(sm.tau, sm.theta) \/ qualifies(su.tau, su.theta) \/ ~bk.ok
                        THEN {PosInf} ELSE engine_errors(k, bk.tau, bk.theta)) } :
            sm \in {smith}, su \in {sundaresan}, bk \in {backup} }

\* run_identification_assigns with k set to NaN when run_identification
\* returns None.
run_identification_assigns_clears_k(o) ==
    /\ IF o.none
       THEN k' = NaN /\ UNCHANGED <<tau, theta, method_id, identified>>
       ELSE /\ tau' = o.tau /\ theta' = o.theta /\ method_id' = o.method_id
            /\ identified' = TRUE
            /\ UNCHANGED k
    /\ UNCHANGED <<t, u, y, y0, du, den_norm>>

\* The attributes run_identification assigns, o being what it returns.
run_identification_assigns(o) ==
    /\ IF o.none
       THEN UNCHANGED <<tau, theta, method_id, identified>>
       ELSE /\ tau' = o.tau /\ theta' = o.theta /\ method_id' = o.method_id
            /\ identified' = TRUE
    /\ UNCHANGED <<t, u, y, y0, du, den_norm, k>>

\* run_identification(); repeated records that the call before was a
\* run_identification too.
RunIdentification ==
    \E o \in ident_outcomes :
        /\ nops < MaxOps
        /\ nops' = nops + 1
        /\ run_identification_assigns(o)
        /\ last' = [op |-> "run_identification",
                    repeated |-> last.op = "run_identification"] @@ o
        /\ UNCHANGED <<Kp, Ti, Td, view>>

\* calculate_pid_tuning(method, lambda_val)
CalculatePidTuning(method, lambda_val) ==
    \E c \in {tuning_call(fopdt_model, method, lambda_val)} :
        /\ nops < MaxOps
        /\ nops' = nops + 1
        /\ IF c.raised
           THEN UNCHANGED <<Kp, Ti, Td>>
           ELSE Kp' = c.ret[1] /\ Ti' = c.ret[2] /\ Td' = c.ret[3]
        /\ last' = [op |-> "calculate_pid_tuning", method |-> method,
                    lambda_val |-> lambda_val, raised |-> c.raised, ret |-> c.ret]
        /\ UNCHANGED <<t, u, y, y0, du, den_norm, k, tau, theta, method_id, identified, view>>

\* simulate_closed_loop(setpoint, k_p, t_i, t_d)
SimulateClosedLoop(setpoint, k_p, t_i, t_d) ==
    /\ nops < MaxOps
    /\ nops' = nops + 1
    /\ IF simulate_guard_fails
       THEN /\ last' = [op |-> "simulate_closed_loop", setpoint |-> setpoint,
                        k_p |-> k_p, t_i |-> t_i, t_d |-> t_d, none |-> TRUE]
            /\ UNCHANGED <<Kp, Ti, Td>>
       ELSE \E g \in {used_gains(k_p, t_i, t_d)} :
              \E y_unit \in closed_loop_responses(g, Len(t[1])) :
                /\ Kp' = g[1] /\ Ti' = g[2] /\ Td' = g[3]
                /\ last' = [op |-> "simulate_closed_loop", setpoint |-> setpoint,
                            k_p |-> k_p, t_i |-> t_i, t_d |-> t_d]
                           @@ simulate_return(setpoint, y_unit)
    /\ UNCHANGED <<t, u, y, y0, du, den_norm, k, tau, theta, method_id, identified, view>>

Next ==
    \/ \E rf \in ReadFiles : LoadData(rf)
    \/ RunIdentification
    \/ \E c \in TuningCalls : CalculatePidTuning(c[1], c[2])
    \/ \E c \in SimCalls : SimulateClosedLoop(c[1], c[2], c[3], c[4])

Spec == Init /\ [][Next]_vars

----------------------------------------------------------------------------
(* The same session with calls of calculate_metrics among the others.      *)

\* The arguments <<t, y, y_final>> of the calls of calculate_metrics in a
\* session: a response that rises to its target; no response.
MetricCalls ==
    { <<MetricTimes(3), Some(<<F(0), Q(1, 2), F(1)>>), Some(F(1))>>,
      <<MetricTimes(0), None, None>> }

\* calculate_metrics(t, y, y_final) in a session: it assigns no attribute.
SessionCalculateMetrics(ts, y_arg, y_final) ==
    /\ nops < MaxOps
    /\ nops' = nops + 1
    /\ last' = [op |-> "calculate_metrics", y |-> y_arg, y_final |-> y_final,
                t |-> ts, ret |-> calculate_metrics(ts, y_arg, y_final)]
    /\ UNCHANGED <<t, u, y, y0, du, den_norm, k, tau, theta, method_id, Kp, Ti, Td,
                   identified, view>>

SessionNext ==
    \/ \E rf \in ReadFiles : LoadData(rf)
    \/ RunIdentification
    \/ \E c \in TuningCalls : CalculatePidTuning(c[1], c[2])
    \/ \E c \in SimCalls : SimulateClosedLoop(c[1], c[2], c[3], c[4])
    \/ \E c \in MetricCalls : SessionCalculateMetrics(c[1], c[2], c[3])

SessionSpec == Init /\ [][SessionNext]_vars

----------------------------------------------------------------------------
(* Loading and identification alone, on the files above and on the files   *)
(* that exercise the step detection and the search of the keys.            *)

IdentNext ==
    \/ \E rf \in ReadFiles \cup ReadStepFiles \cup ReadKeyFiles : LoadData(rf)
    \/ RunIdentification

IdentSpec == Init /\ [][IdentNext]_vars

----------------------------------------------------------------------------
(* calculate_metrics on its own: it reads and writes no attribute.  The    *)
(* session starts with the call about to be made.                          *)

MetricsInit ==
    /\ k = NaN /\ tau = NaN /\ theta = NaN
    /\ t = None /\ u = None /\ y = None
    /\ y0 = NaN /\ du = NaN
    /\ den_norm = NaN
    /\ method_id = "N/A"
    /\ Kp = F(0) /\ Ti = F(0) /\ Td = F(0)
    /\ \E y_arg \in MetricResponses, y_final \in MetricTargets :
          last = [op |-> "call calculate_metrics", y |-> y_arg, y_final |-> y_final,
                  t |-> MetricTimes(IF y_arg = None THEN 0 ELSE Len(y_arg[1]))]
    /\ identified = FALSE
    /\ nops = 0
    /\ view = view_init

\* calculate_metrics(t, y, y_final)
CalculateMetrics ==
    /\ last.op = "call calculate_metrics"
    /\ last' = [op |-> "calculate_metrics", y |-> last.y, y_final |-> last.y_final,
                t |-> last.t, ret |-> calculate_metrics(last.t, last.y, last.y_final)]
    /\ UNCHANGED <<t, u, y, y0, du, den_norm, k, tau, theta, method_id, Kp, Ti, Td,
                   identified, nops, view>>

MetricsNext == CalculateMetrics

MetricsSpec == MetricsInit /\ [][MetricsNext]_vars

----------------------------------------------------------------------------
(* The application: the handlers of MainController, each run to its end on *)
(* the event that Qt delivers to it.  A handler of a widget of the control *)
(* tab runs only while the tab, and the widget in it, is enabled.          *)

GuiInit == Init

\* Line 190 of main_controller.py: lambda is passed for IMC only.
lambda_arg(v) == IF v.cb_tuning_method = "IMC" THEN Some(v.le_lambda) ELSE None

\* Lines 196-207: the boxes after the call c of calculate_pid_tuning.  When
\* the call raises, the handler ends there.
tuning_fields(v, c) ==
    IF c.raised THEN v
    ELSE IF IsFinite(c.ret[1])
    THEN [v EXCEPT !.le_kp = le_kp_box(c.ret[1]), !.le_ti = le_ti_box(c.ret[2]),
                   !.le_td = le_td_box(c.ret[3])]
    ELSE [v EXCEPT !.le_kp = le_kp_box(F(0)), !.le_ti = le_ti_box(Q(1, 100)),
                   !.le_td = le_td_box(F(0)),
                   !.message = IF v.radio_method THEN "Aviso" ELSE @]

\* run_tuning_calculation_action, called by the handler recorded as ev when
\* it has brought the window to v and the model to m.
run_tuning_calculation_action(m, v, ev) ==
    \E w \in {v} :
      \E c \in {tuning_call(m, w.cb_tuning_method, lambda_arg(w))} :
        /\ IF c.raised
           THEN UNCHANGED <<Kp, Ti, Td>>
           ELSE Kp' = c.ret[1] /\ Ti' = c.ret[2] /\ Td' = c.ret[3]
        /\ view' = tuning_fields(w, c)
        /\ last' = ev @@ [tuned |-> TRUE, method |-> w.cb_tuning_method,
                          lambda_val |-> lambda_arg(w), raised |-> c.raised,
                          ret |-> c.ret]

\* load_data_action: the file dialog is cancelled (choice = None) or gives
\* the path of the file choice[1].file.
LoadDataAction(choice) ==
    /\ nops < MaxOps
    /\ nops' = nops + 1
    /\ UNCHANGED <<Kp, Ti, Td>>
    /\ IF choice = None
       THEN /\ UNCHANGED <<t, u, y, y0, du, den_norm, k, tau, theta, method_id, identified>>
            /\ view' = [view EXCEPT !.control_tab = FALSE, !.message = ""]
            /\ last' = [op |-> "load_data_action", chosen |-> FALSE]
       ELSE \E o \in {load_outcome(choice[1].read)} :
              /\ load_data_assigns(o)
              /\ view' = [view EXCEPT !.control_tab = FALSE,
                                      !.btn_identify = IF o.ret THEN TRUE ELSE @,
                                      !.message = IF o.ret THEN "" ELSE "Erro de Carregamento"]
              /\ last' = [op |-> "load_data_action", chosen |-> TRUE, ret |-> o.ret,
                          branch |-> o.branch]

\* results_valid for every call that passed the test of the dataset,
\* whether or not it returned a model.
results_valid_if_entered(o) == o.entered

\* Line 92: the test run_identification_action makes of what
\* run_identification returned.
results_valid(o) == ~o.none /\ IsFinite(o.k) /\ IsFinite(o.tau)

\* run_identification_action, on a click of btn_identify
RunIdentificationAction ==
    /\ view.btn_identify
    /\ nops < MaxOps
    /\ nops' = nops + 1
    /\ \E o \in ident_outcomes :
          /\ run_identification_assigns(o)
          /\ IF results_valid(o)
             THEN run_tuning_calculation_action(
                      [k |-> o.k, tau |-> o.tau, theta |-> o.theta,
                       method_id |-> o.method_id],
                      [view EXCEPT !.control_tab = TRUE,
                                   !.le_setpoint = le_setpoint_box(Add(y0, den_norm)),
                                   !.message = ""],
                      [op |-> "run_identification_action", results |-> o])
             ELSE /\ view' = [view EXCEPT !.control_tab = FALSE,
                                          !.message = "Erro de Identificação"]
                  /\ last' = [op |-> "run_identification_action", results |-> o,
                              tuned |-> FALSE]
                  /\ UNCHANGED <<Kp, Ti, Td>>

\* handle_method_change(method), on the user's choice of another item of
\* cb_tuning_method, which is enabled in the mode 'Método' only.
HandleMethodChange(method) ==
    /\ view.control_tab /\ view.radio_method
    /\ method # view.cb_tuning_method
    /\ nops < MaxOps
    /\ nops' = nops + 1
    /\ UNCHANGED <<t, u, y, y0, du, den_norm, k, tau, theta, method_id, identified>>
    /\ run_tuning_calculation_action(fopdt_model,
           [view EXCEPT !.cb_tuning_method = method, !.message = ""],
           [op |-> "handle_method_change"])

\* toggle_tuning_mode, on a click of the radio button that is not checked.
\* In the mode 'Método' it calls run_tuning_calculation_action twice, through
\* handle_method_change and itself; the second call repeats the first.
ToggleTuningMode ==
    /\ view.control_tab
    /\ nops < MaxOps
    /\ nops' = nops + 1
    /\ UNCHANGED <<t, u, y, y0, du, den_norm, k, tau, theta, method_id, identified>>
    /\ IF ~view.radio_method
       THEN run_tuning_calculation_action(fopdt_model,
                [view EXCEPT !.radio_method = TRUE, !.message = ""],
                [op |-> "toggle_tuning_mode"])
       ELSE /\ view' = clear_tuning_fields([view EXCEPT !.radio_method = FALSE,
                                                        !.message = ""])
            /\ last' = [op |-> "toggle_tuning_mode", tuned |-> FALSE]
            /\ UNCHANGED <<Kp, Ti, Td>>

\* The gains and the lambda the user types into the boxes.
ManualGains == { <<F(0), F(0), F(0)>>, <<F(2), F(3), F(1)>> }

LambdaEdits == { F(2) }

\* The user edits le_kp, le_ti and le_td, which are read-only in the mode
\* 'Método'; no handler is connected to the boxes.
EditGains(g) ==
    /\ view.control_tab /\ ~view.radio_method
    /\ nops < MaxOps
    /\ nops' = nops + 1
    /\ view' = [view EXCEPT !.le_kp = le_kp_box(g[1]), !.le_ti = le_ti_box(g[2]),
                            !.le_td = le_td_box(g[3]), !.message = ""]
    /\ view' # view
    /\ last' = [op |-> "edit gains", tuned |-> FALSE]
    /\ UNCHANGED <<t, u, y, y0, du, den_norm, k, tau, theta, method_id, identified,
                   Kp, Ti, Td>>

\* The user edits le_lambda, which handle_method_change enables for IMC in
\* the mode 'Método'; no handler is connected to the box.
EditLambda(lam) ==
    /\ view.control_tab /\ view.radio_method /\ view.cb_tuning_method = "IMC"
    /\ nops < MaxOps
    /\ nops' = nops + 1
    /\ view' = [view EXCEPT !.le_lambda = le_lambda_box(lam), !.message = ""]
    /\ view' # view
    /\ last' = [op |-> "edit lambda", tuned |-> FALSE]
    /\ UNCHANGED <<t, u, y, y0, du, den_norm, k, tau, theta, method_id, identified,
                   Kp, Ti, Td>>

\* Lines 229-259 of main_controller.py: the message of
\* run_tuning_simulation_action for the y_cl that simulate_closed_loop returns.
simulation_message(y_cl) ==
    IF y_cl # None /\ \A i \in 1 .. Len(y_cl[1]) : ~IsNaN(y_cl[1][i])
    THEN "" ELSE "Erro de Simulação"

\* run_tuning_simulation_action, on a click of btn_tune_simulate
RunTuningSimulationAction ==
    /\ view.control_tab
    /\ nops < MaxOps
    /\ nops' = nops + 1
    /\ UNCHANGED <<t, u, y, y0, du, den_norm, k, tau, theta, method_id, identified>>
    /\ IF ~IsFinite(k) \/ ~IsFinite(tau)
       THEN /\ view' = [view EXCEPT !.message = "Aviso"]
            /\ last' = [op |-> "run_tuning_simulation_action", tuned |-> FALSE,
                        simulated |-> FALSE]
            /\ UNCHANGED <<Kp, Ti, Td>>
       ELSE IF simulate_guard_fails
       THEN /\ view' = [view EXCEPT !.message = simulation_message(None)]
            /\ last' = [op |-> "run_tuning_simulation_action", tuned |-> FALSE,
                        simulated |-> TRUE, none |-> TRUE]
            /\ UNCHANGED <<Kp, Ti, Td>>
       ELSE \E g \in {used_gains(Some(view.le_kp), Some(view.le_ti), Some(view.le_td))} :
              \E y_unit \in closed_loop_responses(g, Len(t[1])) :
                \E r \in {simulate_return(Some(view.le_setpoint), y_unit)} :
                  /\ Kp' = g[1] /\ Ti' = g[2] /\ Td' = g[3]
                  /\ view' = [view EXCEPT !.message = simulation_message(Some(r.y_cl_rel))]
                  /\ last' = [op |-> "run_tuning_simulation_action", tuned |-> FALSE,
                              simulated |-> TRUE] @@ r

\* ControlTab.clear_tuning_fields, on a click of btn_clear_manual, which
\* toggle_tuning_mode enables in the mode 'Manual' only.
BtnClearManual ==
    /\ view.control_tab /\ ~view.radio_method
    /\ nops < MaxOps
    /\ nops' = nops + 1
    /\ view' = clear_tuning_fields([view EXCEPT !.message = ""])
    /\ last' = [op |-> "clear_tuning_fields", tuned |-> FALSE]
    /\ UNCHANGED <<t, u, y, y0, du, den_norm, k, tau, theta, method_id, identified,
                   Kp, Ti, Td>>

GuiNext ==
    \/ \E choice \in {None} \cup {Some(rf) : rf \in ReadFiles} : LoadDataAction(choice)
    \/ RunIdentificationAction
    \/ \E i \in DOMAIN TUNING_METHODS : HandleMethodChange(TUNING_METHODS[i])
    \/ ToggleTuningMode
    \/ \E g \in ManualGains : EditGains(g)
    \/ \E lam \in LambdaEdits : EditLambda(lam)
    \/ RunTuningSimulationAction
    \/ BtnClearManual

GuiSpec == GuiInit /\ [][GuiNext]_vars

----------------------------------------------------------------------------
(* Properties.                                                             *)

\* C1: after a load_data that returned False the dataset is unset: t, u and
\* y are None and y0, du, den_norm and k are NaN.
C1_FailedLoadUnsetsDataset ==
    (last.op = "load_data" /\ ~last.ret) =>
        /\ t = None /\ u = None /\ y = None
        /\ IsNaN(y0) /\ IsNaN(du) /\ IsNaN(den_norm) /\ IsNaN(k)

\* C2: from a load_data until the next run_identification that returns a
\* model, calculate_pid_tuning returns (0, 0, 0) and simulate_closed_loop
\* returns (None, None, None).
C2_ModelInvalidAfterLoad ==
    ~identified =>
        /\ (last.op = "calculate_pid_tuning" => last.ret = <<F(0), F(0), F(0)>>)
        /\ (last.op = "simulate_closed_loop" => last.none)

\* C3: after a run_identification that returned None the stored tau and
\* theta are NaN and method_id is 'N/A'.
C3_FailedIdentificationResetsModel ==
    (last.op = "run_identification" /\ last.none) =>
        IsNaN(tau) /\ IsNaN(theta) /\ method_id = "N/A"

\* C4: a model that run_identification returns has tau finite and > 0,
\* theta finite and >= 0, k finite and not 0 and one of the three method
\* names, and it is the stored model.
C4_ReturnedModelValid ==
    (last.op = "run_identification" /\ ~last.none) =>
        /\ IsFinite(last.tau) /\ Gt(last.tau, F(0))
        /\ IsFinite(last.theta) /\ Ge(last.theta, F(0))
        /\ IsFinite(last.k) /\ last.k # F(0)
        /\ last.method_id \in {"Smith", "Sundaresan", "SemAtraso(backup)"}
        /\ tau = last.tau /\ theta = last.theta /\ method_id = last.method_id
        /\ k = last.k

\* run_identification has returned a Sundaresan model with a positive delay.
C4_Witness ==
    /\ last.op = "run_identification" /\ ~last.none
    /\ last.method_id = "Sundaresan" /\ Gt(last.theta, F(0)) /\ theta = last.theta

\* C5: the returned model is a qualifying candidate of least RMSE; it is
\* Smith when both rules qualify and rmse_smith <= rmse_sun, and Sundaresan
\* only when Sundaresan qualifies and Smith was discarded or has the
\* strictly larger RMSE.
C5_LowestRmseSmithOnTies ==
    (last.op = "run_identification" /\ ~last.none) =>
        /\ (last.q_smith => Le(last.rmse, last.rmse_smith))
        /\ (last.q_sun => Le(last.rmse, last.rmse_sun))
        /\ (last.method_id = "Smith" => last.q_smith /\ last.rmse = last.rmse_smith)
        /\ (last.method_id = "Sundaresan" =>
               /\ last.q_sun /\ last.rmse = last.rmse_sun
               /\ (~last.q_smith \/ Lt(last.rmse_sun, last.rmse_smith)))
        /\ (last.q_smith /\ last.q_sun /\ Le(last.rmse_smith, last.rmse_sun) =>
               last.method_id = "Smith")

\* Both rules qualified with equal finite errors and Smith was returned.
C5_Witness ==
    /\ last.op = "run_identification" /\ ~last.none
    /\ last.q_smith /\ last.q_sun
    /\ IsFinite(last.rmse_smith) /\ last.rmse_smith = last.rmse_sun
    /\ last.method_id = "Smith"

\* C6: a run_identification that got past its entry test returns the
\* delay-free fallback, tau = (t90 - t10)/2.2 and theta = 0, if and only if
\* both rules were discarded and the 10% and 90% times are defined with
\* t90 > t10.
C6_FallbackOnlyWhenNoCandidate ==
    (last.op = "run_identification" /\ last.entered) =>
        LET t10 == time_at_norm(Q(1, 10))
            t90 == time_at_norm(Q(9, 10))
        IN  /\ (~last.none /\ last.method_id = "SemAtraso(backup)")
                  <=> (/\ ~last.q_smith /\ ~last.q_sun
                       /\ IsFinite(t10) /\ IsFinite(t90) /\ Gt(t90, t10))
            /\ (~last.none /\ last.method_id = "SemAtraso(backup)") =>
                  /\ last.theta = F(0)
                  /\ last.tau = Div(Sub(t90, t10), Q(22, 10))

\* Both rules were discarded and the fallback was returned.
C6_Witness ==
    /\ last.op = "run_identification" /\ ~last.none
    /\ ~last.q_smith /\ ~last.q_sun
    /\ last.method_id = "SemAtraso(backup)" /\ method_id = "SemAtraso(backup)"

C8_UnsettledHasNoSettlingTime ==
    (last.op = "calculate_metrics" /\ last.y # None /\ last.y_final # None) =>
        LET ys == last.y[1]
            yf == last.y_final[1]
        IN  (Len(ys) > 0 /\ Gt(FAbs(Sub(ys[Len(ys)], yf)), Mul(Q(2, 100), FAbs(yf)))) =>
               IsNaN(last.ret.ts)

\* C9: a simulate_closed_loop that simulates uses, and stores, the stored
\* gain for each of k_p, t_i and t_d that is omitted, a Ti below 1e-6
\* being raised to 1e-6.
C9_OmittedOverrideFallsBack ==
    [][(last'.op = "simulate_closed_loop" /\ nops' = nops + 1 /\ ~last'.none) =>
          /\ (last'.k_p = None => Kp' = Kp)
          /\ (last'.t_i = None =>
                 Ti' = IF Lt(Ti, Q(1, 1000000)) THEN Q(1, 1000000) ELSE Ti)
          /\ (last'.t_d = None => Td' = Td)]_vars

\* C10: a simulate_closed_loop called with no dataset or with a non-finite
\* k or tau returns (None, None, None) and changes no attribute.
C10_FailedSimulationChangesNothing ==
    [][(/\ last'.op = "simulate_closed_loop" /\ nops' = nops + 1
        /\ (t = None \/ ~IsFinite(k) \/ ~IsFinite(tau))) =>
          /\ last'.none
          /\ UNCHANGED <<t, u, y, y0, du, den_norm, k, tau, theta, method_id, Kp, Ti, Td>>]_vars

\* simulate_closed_loop, given a k_p, has returned (None, None, None) on a
\* loaded dataset whose model is not identified.
C10_Witness ==
    /\ last.op = "simulate_closed_loop" /\ last.none
    /\ t # None /\ IsFinite(k) /\ ~IsFinite(tau)
    /\ last.k_p # None

\* C11: calculate_pid_tuning stores the triple it returns, and with a model
\* that is not valid (k non-finite or zero, tau not > 0, theta not >= 0)
\* that triple is (0, 0, 0), whatever the method and lambda.
C11_InvalidModelTunesToZero ==
    last.op = "calculate_pid_tuning" =>
        /\ <<Kp, Ti, Td>> = last.ret
        /\ ~(IsFinite(k) /\ k # F(0) /\ Gt(tau, F(0)) /\ Ge(theta, F(0))) =>
              last.ret = <<F(0), F(0), F(0)>>

\* calculate_pid_tuning('IMC', 2) has returned on a loaded dataset whose
\* model is not identified.
C11_Witness ==
    /\ last.op = "calculate_pid_tuning"
    /\ last.method = "IMC" /\ last.lambda_val = Some(F(2))
    /\ IsFinite(k) /\ k # F(0) /\ IsNaN(tau)
    /\ <<Kp, Ti, Td>> = <<F(0), F(0), F(0)>>

\* C12: on a valid model with theta = 0, a rule that divides by theta
\* (Ziegler-Nichols, both CHR rules, Cohen-Coon, ITAE) does not raise:
\* calculate_pid_tuning returns a non-finite Kp and stores it, and
\* run_tuning_calculation_action, finding Kp non-finite, sets the boxes to
\* its defaults Kp = 0, Ti = 0.01, Td = 0.
C12_ZeroDeadTimeGivesDefaults ==
    (/\ "tuned" \in DOMAIN last /\ last.tuned
     /\ tuning_model_valid(fopdt_model) /\ theta = F(0)
     /\ last.method \in Methods \ {"IMC"})
    => /\ ~last.raised
       /\ ~IsFinite(last.ret[1])
       /\ Kp = last.ret[1]
       /\ view.le_kp = F(0) /\ view.le_ti = Q(1, 100) /\ view.le_td = F(0)

\* The user has chosen ITAE for a model given by the fallback, whose theta
\* is the Python float 0.0, and the boxes show the defaults.
C12_Witness ==
    /\ last.op = "handle_method_change" /\ last.method = "ITAE"
    /\ tuning_model_valid(fopdt_model) /\ theta = F(0) /\ method_id = "SemAtraso(backup)"
    /\ ~IsFinite(Kp)
    /\ view.le_ti = Q(1, 100)

\* C13: the response simulate_closed_loop returns is zero at every time
\* point whenever the gains it uses make the controller null: Kp = 0 (so
\* with Kp = Ti = Td = 0, given or stored), or a gain that is not finite;
\* whatever the plant and the setpoint.  A Ti <= 0 is never used: line 313
\* replaces it by 1e-6.
C13_NullControllerGivesZeroResponse ==
    (last.op = "simulate_closed_loop" /\ ~last.none) =>
        /\ Gt(Ti, F(0)) /\ IsFinite(Ti)
        /\ (Kp = F(0) \/ ~IsFinite(Kp) \/ ~IsFinite(Td)) =>
              \A i \in DOMAIN last.y_cl_rel : last.y_cl_rel[i] = F(0)

\* simulate_closed_loop has run on an identified model with a setpoint of 2
\* and the stored gains Kp = Td = 0, and returned the zero response.
C13_Witness ==
    /\ last.op = "simulate_closed_loop" /\ ~last.none
    /\ identified
    /\ last.setpoint = Some(F(2)) /\ last.k_p = None /\ last.t_d = None
    /\ Kp = F(0) /\ Td = F(0)
    /\ \A i \in DOMAIN last.y_cl_rel : last.y_cl_rel[i] = F(0)

\* C14: load_data returns False whenever the cleaning (truncation, finite
\* filter, sort, removal of repeated times) leaves fewer than 3 samples, and
\* a dataset load_data has accepted has at least 3 samples.
C14_FewerThanThreeSamplesRejected ==
    last.op = "load_data" =>
        /\ (last.samples # None /\ last.samples[1] < 3) => ~last.ret
        /\ last.ret => (t # None /\ Len(t[1]) >= 3)

\* load_data has returned False, at the test of the step, for a file of four
\* finite rows with two distinct times.
C14_Witness ==
    /\ last.op = "load_data"
    /\ last.samples = Some(2) /\ last.branch = "invalid" /\ ~last.ret

\* C15: when load_data has returned True, t, u and y have the same length,
\* t is strictly increasing, every sample is finite, |du| and |dy| are at
\* least 1e-6, and k = dy/du is finite and not zero.
C15_LoadedDatasetWellFormed ==
    (last.op = "load_data" /\ last.ret) =>
        /\ t # None /\ u # None /\ y # None
        /\ Len(t[1]) = Len(u[1]) /\ Len(u[1]) = Len(y[1])
        /\ \A i \in 1 .. Len(t[1]) :
              IsFinite(t[1][i]) /\ IsFinite(u[1][i]) /\ IsFinite(y[1][i])
        /\ \A i \in 1 .. Len(t[1]) - 1 : Lt(t[1][i], t[1][i + 1])
        /\ Ge(FAbs(du), eps) /\ Ge(FAbs(den_norm), eps)
        /\ k = Div(den_norm, du) /\ IsFinite(k) /\ k # F(0)

\* load_data has returned True for a file of four rows of which the
\* cleaning has removed one (a repeated or a non-finite time).
C15_Witness ==
    /\ last.op = "load_data" /\ last.ret
    /\ last.samples = Some(3)
    /\ Len(t[1]) = 3

\* C16: load_data recomputes du with the wider windows only when the du of
\* the narrow windows is below eps in magnitude; otherwise the stored du is
\* the narrow one; and it rejects the step as invalid only when the du it
\* has then, or dy, is below eps in magnitude.
C16_WideWindowsOnlyForSmallStep ==
    (last.op = "load_data" /\ last.step # None) =>
        LET s == last.step[1]
            narrow_small == Lt(FAbs(s.du_narrow), eps)
        IN  /\ ~narrow_small => du = s.du_narrow
            /\ du # s.du_narrow => narrow_small
            /\ (last.branch = "invalid") <=>
                  (Lt(FAbs(du), eps) \/ Lt(FAbs(den_norm), eps))
            /\ (last.branch = "invalid" /\ Ge(FAbs(den_norm), eps)) => narrow_small

\* load_data has accepted a record whose narrow windows give du = 0 and
\* whose wider windows give du = 1.
C16_Witness ==
    /\ last.op = "load_data" /\ last.ret
    /\ last.step # None
    /\ last.step[1].du_narrow = F(0)
    /\ du = F(1)

\* C17: on the record of the plant 2 e^(-3s) / (4s + 1) answering a unit
\* input step at the time 5, load followed by identify succeeds with the
\* method Smith or Sundaresan, k within a hundredth of 2, and tau and theta
\* within one sampling period and a half of 4 and of 3, theta being the dead
\* time counted from the step instant.
C17_DeadTimeFromStepInstant ==
    (last.op = "run_identification" /\ t = Some(FopdtTimes(5))
        /\ y = Some(FopdtFile(5).data[3].val))
    => /\ ~last.none
       /\ method_id \in {"Smith", "Sundaresan"}
       /\ Le(FAbs(Sub(k, F(2))), Q(1, 100))
       /\ Le(FAbs(Sub(tau, F(4))), Q(3, 2))
       /\ Le(FAbs(Sub(theta, F(3))), Q(3, 2))

\* C18: calculate_metrics returns as tr the time of the first sample at or
\* above 90% of y_final minus the time of the first sample at or above 10%
\* of y_final, and NaN when no sample reaches one of the two levels; for a
\* positive y_final a tr that is not NaN is not negative.
C18_RiseTimeBetweenFirstCrossings ==
    (last.op = "calculate_metrics" /\ last.y # None /\ last.y_final # None) =>
        LET ys == last.y[1]
            yf == last.y_final[1]
            r10 == {i \in 1 .. Len(ys) : Ge(ys[i], Mul(Q(1, 10), yf))}
            r90 == {i \in 1 .. Len(ys) : Ge(ys[i], Mul(Q(9, 10), yf))}
            first(r) == CHOOSE i \in r : \A j \in r : i <= j
        IN  /\ (r10 = {} \/ r90 = {}) => IsNaN(last.ret.tr)
            /\ (r10 # {} /\ r90 # {}) =>
                  last.ret.tr = Sub(last.t[first(r90)], last.t[first(r10)])
            /\ (Gt(yf, F(0)) /\ ~IsNaN(last.ret.tr)) => Ge(last.ret.tr, F(0))

\* A response that reaches 10% of y_final at its second sample and 90% at
\* its third: tr is the time between the two.
C18_Witness ==
    /\ last.op = "calculate_metrics"
    /\ last.y = Some(<<F(0), Q(1, 2), F(1), Q(1, 2)>>)
    /\ last.y_final = Some(F(1))
    /\ last.ret.tr = F(2)

\* C19: dy is a level after the step minus the median y0 before it: every
\* sample of the trailing window whose median is the level after the step
\* has an index above the detected step index, and dy is that median minus
\* the y0 that load_data stores.
C19_PostLevelWindowAfterStep ==
    (last.op = "load_data" /\ last.step # None) =>
        LET s == last.step[1]
        IN  /\ \A i \in s.y1_window : i > s.step_idx
            /\ y0 = s.y0
            /\ den_norm = Sub(s.y1, y0)

\* C20: load_data binds each of t, u and y to a key of that field's own
\* aliases whatever the order of the keys: from a file with the keys 'time',
\* 'input' and 'output', in any order and letter case, it takes t from
\* 'time', u from 'input' and y from 'output'; it binds no field to a key
\* that is, letter case apart, an alias of another field; and it fails when
\* a field has no key.
C20_KeysBoundByOwnAlias ==
    (last.op = "load_data" /\ last.keys # None) =>
        LET ks == last.keys[1]
            names == {Lower(last.dict_keys[i]) : i \in 1 .. Len(last.dict_keys)}
            is_alias(key, aliases) == \E j \in 1 .. Len(aliases) : Lower(key) = aliases[j]
            al == <<t_aliases, u_aliases, y_aliases>>
        IN  /\ (names = {<<"t","i","m","e">>, <<"i","n","p","u","t">>, <<"o","u","t","p","u","t">>})
                  => /\ \A f \in 1 .. 3 : ks[f] # None
                     /\ Lower(ks[1][1]) = <<"t","i","m","e">>
                     /\ Lower(ks[2][1]) = <<"i","n","p","u","t">>
                     /\ Lower(ks[3][1]) = <<"o","u","t","p","u","t">>
            /\ \A f \in 1 .. 3 : \A g \in (1 .. 3) \ {f} :
                  ks[f] # None => ~is_alias(ks[f][1], al[g])
            /\ (\E f \in 1 .. 3 : ks[f] = None)
                  => (~last.ret /\ last.branch = "keys" /\ t = None)

\* C21: each operation writes only its own part of the state.
\* run_identification leaves the dataset (t, u, y, y0, du, dy, k) and the
\* gains (Kp, Ti, Td) as they are; calculate_pid_tuning and
\* simulate_closed_loop leave the dataset and the model (tau, theta,
\* method_id) as they are; calculate_metrics leaves all of them as they
\* are.  And a run_identification that follows a run_identification, the
\* response engine reporting the same errors for the same simulations,
\* returns the same model.
C21_OperationsWriteOwnState ==
    [][ /\ last'.op = "run_identification"
            => UNCHANGED <<t, u, y, y0, du, den_norm, k, Kp, Ti, Td>>
        /\ last'.op \in {"calculate_pid_tuning", "simulate_closed_loop"}
            => UNCHANGED <<t, u, y, y0, du, den_norm, k, tau, theta, method_id>>
        /\ last'.op = "calculate_metrics"
            => UNCHANGED <<t, u, y, y0, du, den_norm, k, tau, theta, method_id, Kp, Ti, Td>>
        /\ (/\ last.op = "run_identification" /\ last'.op = "run_identification"
            /\ last'.rmse_smith = last.rmse_smith /\ last'.rmse_sun = last.rmse_sun
            /\ (last.method_id = "SemAtraso(backup)" /\ last'.method_id = "SemAtraso(backup)")
                  => last'.rmse = last.rmse)
            => /\ last'.none = last.none
               /\ last'.k = last.k /\ last'.tau = last.tau /\ last'.theta = last.theta
               /\ last'.method_id = last.method_id /\ last'.rmse = last.rmse
               /\ (~last.none => (tau' = tau /\ theta' = theta /\ method_id' = method_id))
      ]_vars

\* run_identification has returned a model with a dead time straight after
\* another run_identification, on a dataset for which both methods qualify.
C21_Witness ==
    /\ last.op = "run_identification" /\ last.repeated /\ ~last.none
    /\ last.q_smith /\ last.q_sun
    /\ last.method_id \in {"Smith", "Sundaresan"}
    /\ identified

\* C22: the control tab is disabled at the start and after every
\* load_data_action, cancelled, failed or successful; only a
\* run_identification_action whose identification succeeded enables it, and
\* one whose identification failed leaves it disabled; so whenever the tab
\* is enabled k, tau and theta are finite and are a model that
\* run_identification gives, and has given, for the dataset now loaded.
C22_ControlTabOnlyAfterIdentification ==
    /\ ~view.control_tab
    /\ [](last.op = "load_data_action" => ~view.control_tab)
    /\ []((last.op = "run_identification_action" /\ ~results_valid(last.results))
            => ~view.control_tab)
    /\ [][(view'.control_tab /\ ~view.control_tab)
            => (last'.op = "run_identification_action" /\ results_valid(last'.results))]_vars
    /\ [](view.control_tab =>
            /\ identified /\ t # None
            /\ IsFinite(k) /\ IsFinite(tau) /\ IsFinite(theta)
            /\ \E o \in ident_outcomes :
                  ~o.none /\ o.k = k /\ o.tau = tau /\ o.theta = theta
                  /\ o.method_id = method_id)

\* The control tab is enabled by a run_identification_action that follows a
\* load_data_action.
C22_Witness ==
    /\ view.control_tab
    /\ last.op = "run_identification_action"
    /\ results_valid(last.results)
    /\ identified

====
